---- MODULE Spec2Model ----
(***************************************************************************)
(* Model of core/src/crypto/types.rs: the wrappers X509, PKey and AesKey   *)
(* around the OpenSSL types, their constructors, Debug formatting, the    *)
(* ASN1 date parser, certificate time validity and RSA sign / verify.      *)
(*                                                                         *)
(* Strings are sequences of one-character strings.  Byte buffers are       *)
(* sequences of small naturals.  A Rust Result is <<"Ok", v>> or           *)
(* <<"Err">>; a call that ends in a panic (an unwrap() of an Err) has the  *)
(* outcome <<"Panic">>.                                                    *)
(***************************************************************************)
EXTENDS Integers, Sequences, FiniteSets, TLC

VARIABLES
    x509s,      \* the X509 handles constructed so far
    pkeys,      \* the PKey handles constructed so far
    aeskeys,    \* the AesKey handles constructed so far
    call,       \* the last call: its operation, arguments, outcome and the engine reads it made
    signed,     \* the last signature produced: its key handle, digest, data and bytes
    fmtout      \* what Debug formatting has written: records [type, handle, text]

vars == <<x509s, pkeys, aeskeys, call, signed, fmtout>>

(***************************************************************************)
(* Bounds of the model.                                                    *)
(***************************************************************************)
MaxHandles == 2     \* handles alive at a time
MaxDay == 32        \* day-of-month values 0..MaxDay are written into date strings
MaxData == 2        \* longest data buffer that is signed or verified
MaxKeyId == 1       \* distinct key pairs the engine can produce

Ok(v) == <<"Ok", v>>
Err == <<"Err">>
Panic == <<"Panic">>
Ret(v) == <<"Ret", v>>
IsOk(r) == r[1] = "Ok"
IsErr(r) == r[1] = "Err"
IsPanic(r) == r[1] = "Panic"

NoCall == [op |-> "none", args |-> <<>>, result |-> <<"None">>, reads |-> <<>>]

(***************************************************************************)
(* Strings.                                                                *)
(***************************************************************************)
DigitChars == <<"0", "1", "2", "3", "4", "5", "6", "7", "8", "9">>

IsDigit(c) == \E i \in 1..10 : DigitChars[i] = c

DigitVal(c) == (CHOOSE i \in 1..10 : DigitChars[i] = c) - 1

GMT == <<" ", "G", "M", "T">>

\* str::ends_with
EndsWith(s, suffix) ==
    /\ Len(s) >= Len(suffix)
    /\ SubSeq(s, Len(s) - Len(suffix) + 1, Len(s)) = suffix

\* two decimal digits, zero padded
Fmt2(n) == <<DigitChars[((n \div 10) % 10) + 1], DigitChars[(n % 10) + 1]>>

\* four decimal digits, zero padded
Fmt4(n) == Fmt2(n \div 100) \o Fmt2(n % 100)

(***************************************************************************)
(* chrono's scanner for the format "%b %d %H:%M:%S %Y"                      *)
(* (UTC.datetime_from_str, called at types.rs line 143).                   *)
(***************************************************************************)
MonthNames == << <<"j","a","n">>, <<"f","e","b">>, <<"m","a","r">>, <<"a","p","r">>,
                 <<"m","a","y">>, <<"j","u","n">>, <<"j","u","l">>, <<"a","u","g">>,
                 <<"s","e","p">>, <<"o","c","t">>, <<"n","o","v">>, <<"d","e","c">> >>

UpperChars == <<"J", "F", "M", "A", "S", "O", "N", "D", "G", "T", "B">>
LowerChars == <<"j", "f", "m", "a", "s", "o", "n", "d", "g", "t", "b">>

\* ASCII lower-casing of the letters the model's strings use
ToLower(c) ==
    IF \E i \in 1..Len(UpperChars) : UpperChars[i] = c
    THEN LowerChars[CHOOSE i \in 1..Len(UpperChars) : UpperChars[i] = c]
    ELSE c

RECURSIVE TrimLeft(_)
TrimLeft(s) == IF s # <<>> /\ Head(s) = " " THEN TrimLeft(Tail(s)) ELSE s

RECURSIVE CountDigits(_, _)
CountDigits(s, max) ==
    IF max = 0 \/ s = <<>> \/ ~IsDigit(Head(s)) THEN 0
    ELSE 1 + CountDigits(Tail(s), max - 1)

RECURSIVE DigitsVal(_, _)
DigitsVal(s, n) ==
    IF n = 0 THEN 0 ELSE DigitsVal(s, n - 1) * 10 + DigitVal(s[n])

\* scan::number(s, 1, max): between one and max leading digits
ScanNumber(s, max) ==
    LET n == CountDigits(s, max)
    IN  IF n = 0 THEN [ok |-> FALSE, val |-> 0, rest |-> s]
        ELSE [ok |-> TRUE, val |-> DigitsVal(s, n), rest |-> SubSeq(s, n + 1, Len(s))]

\* Item::Numeric: leading white space is skipped, then the number is scanned
ScanNumeric(s, max) == ScanNumber(TrimLeft(s), max)

\* scan::short_month0: three letters, compared case-insensitively
ScanShortMonth(s) ==
    IF Len(s) < 3 THEN [ok |-> FALSE, val |-> 0, rest |-> s]
    ELSE LET w == <<ToLower(s[1]), ToLower(s[2]), ToLower(s[3])>>
         IN  IF \E m \in 1..12 : MonthNames[m] = w
             THEN [ok |-> TRUE, val |-> CHOOSE m \in 1..12 : MonthNames[m] = w,
                   rest |-> SubSeq(s, 4, Len(s))]
             ELSE [ok |-> FALSE, val |-> 0, rest |-> s]

\* Item::Literal(":")
ScanColon(s) ==
    IF s # <<>> /\ Head(s) = ":" THEN [ok |-> TRUE, rest |-> Tail(s)]
    ELSE [ok |-> FALSE, rest |-> s]

IsLeapYear(y) == (y % 4 = 0 /\ y % 100 # 0) \/ y % 400 = 0

DaysInMonth(y, m) ==
    IF m = 2 THEN (IF IsLeapYear(y) THEN 29 ELSE 28)
    ELSE IF m \in {4, 6, 9, 11} THEN 30 ELSE 31

\* NaiveDate::from_ymd_opt
ValidYmd(y, m, d) == m \in 1..12 /\ d >= 1 /\ d <= DaysInMonth(y, m)

\* Parsed::to_naive_time: hour 0..23, minute 0..59, second 0..59, or 60 read as a
\* leap second (second 59 with the fraction carrying the extra second)
ValidHms(h, mi, s) == h \in 0..23 /\ mi \in 0..59 /\ s \in 0..60

Timestamp(y, m, d, h, mi, s) ==
    [year |-> y, month |-> m, day |-> d, hour |-> h, minute |-> mi,
     second |-> IF s = 60 THEN 59 ELSE s, leap |-> IF s = 60 THEN 1 ELSE 0]

\* UTC.datetime_from_str(date, "%b %d %H:%M:%S %Y")
DatetimeFromStr(s) ==
    LET mon == ScanShortMonth(s)
        day == ScanNumeric(TrimLeft(mon.rest), 2)
        hr  == ScanNumeric(TrimLeft(day.rest), 2)
        c1  == ScanColon(hr.rest)
        mi  == ScanNumeric(c1.rest, 2)
        c2  == ScanColon(mi.rest)
        sec == ScanNumeric(c2.rest, 2)
        yr  == ScanNumeric(TrimLeft(sec.rest), 4)
    IN  IF ~mon.ok THEN Err
        ELSE IF ~day.ok THEN Err
        ELSE IF ~hr.ok THEN Err
        ELSE IF ~c1.ok THEN Err
        ELSE IF ~mi.ok THEN Err
        ELSE IF ~c2.ok THEN Err
        ELSE IF ~sec.ok THEN Err
        ELSE IF ~yr.ok THEN Err
        ELSE IF yr.rest # <<>> THEN Err
        ELSE IF ~ValidYmd(yr.val, mon.val, day.val) THEN Err
        ELSE IF ~ValidHms(hr.val, mi.val, sec.val) THEN Err
        ELSE Ok(Timestamp(yr.val, mon.val, day.val, hr.val, mi.val, sec.val))

(***************************************************************************)
(* X509::parse_asn1_date                                                   *)
(***************************************************************************)
StripGmt(date) ==
    IF EndsWith(date, GMT) THEN SubSeq(date, 1, Len(date) - 4) ELSE date

\* a faulty variant: the " GMT" suffix is left on the string
parse_asn1_date_keep_gmt(date) ==
    LET result == DatetimeFromStr(date)
    IN  IF IsErr(result) THEN Err ELSE Ok(result[2])

\* a faulty variant: a date that does not parse is replaced by the epoch
parse_asn1_date_or_epoch(date) ==
    LET result == DatetimeFromStr(StripGmt(date))
    IN  IF IsErr(result) THEN Ok(Timestamp(1970, 1, 1, 0, 0, 0)) ELSE Ok(result[2])

parse_asn1_date(date) ==
    LET result == DatetimeFromStr(StripGmt(date))
    IN  IF IsErr(result) THEN Err ELSE Ok(result[2])

(***************************************************************************)
(* The engine's certificates.  A certificate carries two ASN1 times; the   *)
(* engine decodes one from DER and prints an ASN1 time as text.            *)
(***************************************************************************)
MonthAbbr == << <<"J","a","n">>, <<"F","e","b">>, <<"M","a","r">>, <<"A","p","r">>,
                <<"M","a","y">>, <<"J","u","n">>, <<"J","u","l">>, <<"A","u","g">>,
                <<"S","e","p">>, <<"O","c","t">>, <<"N","o","v">>, <<"D","e","c">> >>

BadTimeValue == <<"B","a","d"," ","t","i","m","e"," ","v","a","l","u","e">>

Asn1Time(wellformed, y, m, d, h, mi, s) ==
    [wellformed |-> wellformed, year |-> y, month |-> m, day |-> d,
     hour |-> h, minute |-> mi, second |-> s]

\* the day as the engine prints it: two columns, padded with a space
PadDay(d) == IF d < 10 THEN <<" ", DigitChars[d + 1]>> ELSE Fmt2(d)

\* Asn1TimeRef::to_string (called at lines 124 and 130): "Feb 21 12:45:30 1999 GMT",
\* or "Bad time value" for a time the engine cannot read; the engine does not check
\* the day against the month
Asn1ToString(t) ==
    IF ~t.wellformed THEN BadTimeValue
    ELSE MonthAbbr[t.month] \o <<" ">> \o PadDay(t.day) \o <<" ">> \o Fmt2(t.hour) \o <<":">>
         \o Fmt2(t.minute) \o <<":">> \o Fmt2(t.second) \o <<" ">> \o Fmt4(t.year) \o GMT

\* the ASN1 times the modelled DER buffers can name, by code
CertTimes == << Asn1Time(TRUE, 1999, 2, 1, 12, 45, 30),
                Asn1Time(TRUE, 1999, 2, 21, 12, 45, 30),
                Asn1Time(TRUE, 1999, 2, 30, 12, 45, 30),
                Asn1Time(FALSE, 0, 1, 1, 0, 0, 0) >>

EngineCert(nb, na) == [not_before |-> nb, not_after |-> na]

EngineCerts == {EngineCert(CertTimes[a], CertTimes[b]) : a, b \in 1..Len(CertTimes)}

\* x509::X509::from_der (called at line 61).  The modelled DER form of a certificate
\* is a SEQUENCE tag (48), a length of 2 and the codes of its two times.
from_der(bytes) ==
    IF /\ Len(bytes) = 4
       /\ bytes[1] = 48
       /\ bytes[2] = 2
       /\ bytes[3] \in 1..Len(CertTimes)
       /\ bytes[4] \in 1..Len(CertTimes)
    THEN Ok(EngineCert(CertTimes[bytes[3]], CertTimes[bytes[4]]))
    ELSE Err

None == <<"None">>
Some(v) == <<"Some", v>>

DerInputs ==
    { <<>>, <<48>>, <<48, 2, 1>>, <<49, 2, 1, 1>>, <<48, 3, 1, 1>>, <<48, 2, 0, 1>> }
    \cup { <<48, 2, a, b>> : a, b \in 1..Len(CertTimes) }

\* the ByteString values handed to from_byte_string
ByteStrings == {None} \cup {Some(b) : b \in DerInputs}

\* ByteString::is_null
is_null(data) == data[1] = "None"

(***************************************************************************)
(* X509                                                                    *)
(***************************************************************************)
X509_wrap(value) == [type |-> "X509", value |-> value]

\* a faulty variant: the buffer and the decoded certificate are unwrapped unchecked
from_byte_string_unchecked(data) ==
    IF is_null(data) THEN Panic
    ELSE LET r == from_der(data[2])
         IN  IF IsOk(r) THEN Ok(X509_wrap(r[2])) ELSE Panic

from_byte_string(data) ==
    IF is_null(data) THEN Err
    ELSE LET r == from_der(data[2])
         IN  IF IsOk(r) THEN Ok(X509_wrap(r[2])) ELSE Err

not_before(self) == parse_asn1_date(Asn1ToString(self.value.not_before))

not_after(self) == parse_asn1_date(Asn1ToString(self.value.not_after))

TsKey(t) == <<t.year, t.month, t.day, t.hour, t.minute, t.second, t.leap>>

RECURSIVE LexLt(_, _)
LexLt(a, b) ==
    IF a = <<>> THEN FALSE
    ELSE IF Head(a) # Head(b) THEN Head(a) < Head(b)
    ELSE LexLt(Tail(a), Tail(b))

\* DateTime::lt and DateTime::gt
lt(a, b) == LexLt(TsKey(a), TsKey(b))
gt(a, b) == LexLt(TsKey(b), TsKey(a))

GOOD == "Good"
BAD_CERTIFICATE_TIME_INVALID == "BadCertificateTimeInvalid"
BAD_CERTIFICATE_INVALID == "BadCertificateInvalid"

Status(status, reads) == [status |-> status, reads |-> reads]

\* a faulty variant: the bounds themselves are excluded
is_time_valid_exclusive(self, now) ==
    LET nb == not_before(self)
    IN  IF ~IsOk(nb) THEN Status(BAD_CERTIFICATE_INVALID, <<"not_before">>)
        ELSE IF ~gt(now, nb[2]) THEN Status(BAD_CERTIFICATE_TIME_INVALID, <<"not_before">>)
        ELSE LET na == not_after(self)
                 reads == <<"not_before", "not_after">>
             IN  IF ~IsOk(na) THEN Status(BAD_CERTIFICATE_INVALID, reads)
                 ELSE IF ~lt(now, na[2]) THEN Status(BAD_CERTIFICATE_TIME_INVALID, reads)
                 ELSE Status(GOOD, reads)

\* a faulty variant: an unreadable not-after is reported as a time violation
is_time_valid_after_as_time(self, now) ==
    LET nb == not_before(self)
    IN  IF ~IsOk(nb) THEN Status(BAD_CERTIFICATE_INVALID, <<"not_before">>)
        ELSE IF lt(now, nb[2]) THEN Status(BAD_CERTIFICATE_TIME_INVALID, <<"not_before">>)
        ELSE LET na == not_after(self)
                 reads == <<"not_before", "not_after">>
             IN  IF ~IsOk(na) THEN Status(BAD_CERTIFICATE_TIME_INVALID, reads)
                 ELSE IF gt(now, na[2]) THEN Status(BAD_CERTIFICATE_TIME_INVALID, reads)
                 ELSE Status(GOOD, reads)

\* a faulty variant: both bounds are read before either is examined
is_time_valid_eager(self, now) ==
    LET nb == not_before(self)
        na == not_after(self)
        reads == <<"not_before", "not_after">>
    IN  IF ~IsOk(nb) \/ ~IsOk(na) THEN Status(BAD_CERTIFICATE_INVALID, reads)
        ELSE IF lt(now, nb[2]) \/ gt(now, na[2])
             THEN Status(BAD_CERTIFICATE_TIME_INVALID, reads)
             ELSE Status(GOOD, reads)

\* X509::is_time_valid: the status, and the bounds it read on the way, in order
is_time_valid(self, now) ==
    LET nb == not_before(self)
    IN  IF ~IsOk(nb) THEN Status(BAD_CERTIFICATE_INVALID, <<"not_before">>)
        ELSE IF lt(now, nb[2]) THEN Status(BAD_CERTIFICATE_TIME_INVALID, <<"not_before">>)
        ELSE LET na == not_after(self)
                 reads == <<"not_before", "not_after">>
             IN  IF ~IsOk(na) THEN Status(BAD_CERTIFICATE_INVALID, reads)
                 ELSE IF gt(now, na[2]) THEN Status(BAD_CERTIFICATE_TIME_INVALID, reads)
                 ELSE Status(GOOD, reads)

\* the instants is_time_valid is asked about: each readable bound, and a second
\* before and after it
Nows == {Timestamp(1999, 2, d, 12, 45, s) : d \in {1, 21}, s \in {29, 30, 31}}

(***************************************************************************)
(* The engine's asymmetric keys, digests, signers and verifiers.           *)
(* A digest is modelled without collisions and a signature binds the key   *)
(* pair, the digest algorithm and the digest.                              *)
(***************************************************************************)
EngineKey(id, kind, private) == [id |-> id, kind |-> kind, private |-> private]

KeyIds == 1..MaxKeyId

\* the keys that reach PKey::wrap: public keys taken from certificates
PublicKeys == {EngineKey(id, kind, FALSE) : id \in KeyIds, kind \in {"rsa", "ec"}}

KeySizes == {0, 2048}

\* rsa::Rsa::generate followed by pkey::PKey::from_rsa (lines 196-197); the engine
\* refuses a modulus of no bits
RsaGenerate(key_size, id) ==
    IF key_size = 0 THEN Err ELSE Ok(EngineKey(id, "rsa", TRUE))

\* the data buffers that are signed: not empty, at most MaxData bytes, filled with
\* one byte value
Data == {[i \in 1..n |-> b] : n \in 1..MaxData, b \in {0, 1}}

MdCode(md) == IF md = "sha1" THEN 1 ELSE 2

\* hash::MessageDigest::sha1() / sha256() applied to the data: a fixed-length value
\* that differs whenever the algorithm or the data differ
Digest(md, data) ==
    <<MdCode(md)>> \o [i \in 1..MaxData |-> IF i <= Len(data) THEN data[i] ELSE 0]
    \o <<Len(data)>>

SigLen == MaxData + 3

\* sign::Signer::new(md, key), update(data), finish() (lines 207-209, 219-221):
\* the engine signs only with private material
SignerFinish(md, key, data) ==
    IF key.private THEN Ok(<<key.id>> \o Digest(md, data)) ELSE Err

\* sign::Verifier::new(md, key), update(data) (lines 213-214, 225-226)
VerifierUpdate(md, key, data) == Ok(Digest(md, data))

\* sign::Verifier::finish(signature) (lines 215, 227): Ok(true) on a match, Ok(false)
\* on a mismatch, and an error stack when the engine cannot process the signature
\* at all (an EC signature that is not of the expected form)
VerifierFinish(md, key, data, signature) ==
    IF key.kind = "ec" /\ Len(signature) # SigLen THEN Err
    ELSE Ok(signature = <<key.id>> \o Digest(md, data))

(***************************************************************************)
(* PKey                                                                    *)
(***************************************************************************)
PKey_wrap(pkey) == [type |-> "PKey", value |-> pkey]

PKey_new(key_size, id) ==
    LET r == RsaGenerate(key_size, id)
    IN  IF IsOk(r) THEN Ret(PKey_wrap(r[2])) ELSE Panic

Sign(self, md, data) ==
    LET r == SignerFinish(md, self.value, data)
    IN  IF IsOk(r) THEN Ret(r[2]) ELSE Panic

Verify(self, md, data, signature) ==
    LET u == VerifierUpdate(md, self.value, data)
        r == VerifierFinish(md, self.value, data, signature)
    IN  IF ~IsOk(u) THEN Panic
        ELSE IF IsOk(r) THEN Ret(r[2]) ELSE Panic

sign_sha1(self, data) == Sign(self, "sha1", data)

\* a faulty variant: the SHA-1 verifier is built with the SHA-256 digest
verify_sha1_wrong_digest(self, data, signature) == Verify(self, "sha256", data, signature)

verify_sha1(self, data, signature) == Verify(self, "sha1", data, signature)

sign_sha256(self, data) == Sign(self, "sha256", data)

verify_sha256(self, data, signature) == Verify(self, "sha256", data, signature)

(***************************************************************************)
(* AesKey                                                                  *)
(***************************************************************************)
\* the raw key material handed to the constructors: of every accepted length, and of
\* lengths next to them
RawKeys == {[i \in 1..n |-> b] : n \in {0, 16, 24, 32, 33}, b \in {0, 1}}

\* aes::AesKey::new_encrypt / new_decrypt (lines 255, 259): a key schedule for one
\* direction, for a key of 128, 192 or 256 bits
AesSetKey(schedule, key) ==
    IF Len(key) * 8 \in {128, 192, 256}
    THEN Ok([schedule |-> schedule, key |-> key])
    ELSE Err

AesKey_wrap(key) == [type |-> "AesKey", value |-> key]

new_encrypt(value) ==
    LET r == AesSetKey("encrypt", value)
    IN  IF IsOk(r) THEN Ret(AesKey_wrap(r[2])) ELSE Panic

new_decrypt(value) ==
    LET r == AesSetKey("decrypt", value)
    IN  IF IsOk(r) THEN Ret(AesKey_wrap(r[2])) ELSE Panic

(***************************************************************************)
(* impl Debug                                                              *)
(***************************************************************************)
X509_fmt(self) == "[x509]"

\* a faulty variant: the formatter writes a field of the wrapped key
PKey_fmt_field(self) == self.value.kind

PKey_fmt(self) == "[pkey]"

AesKey_fmt(self) == "[aes]"

(***************************************************************************)
(* The inputs of the calls.                                                *)
(***************************************************************************)
DateTimes == { <<0, 0, 0>>, <<12, 45, 30>>, <<23, 59, 59>>, <<23, 59, 60>>, <<24, 0, 0>> }

\* date strings in the form MMM DD HH:MM:SS YYYY, with and without " GMT": every day
\* value up to MaxDay (and 69) in months of 31, 28 or 29, and 30 days
DateInputs ==
    { <<>>, BadTimeValue, GMT }
    \cup { MonthAbbr[m] \o <<" ">> \o Fmt2(d) \o <<" ">> \o Fmt2(t[1]) \o <<":">> \o Fmt2(t[2])
           \o <<":">> \o Fmt2(t[3]) \o <<" ">> \o Fmt4(y) \o suffix :
           m \in {1, 2, 4}, d \in (0..MaxDay) \cup {69}, t \in DateTimes,
           y \in {1970, 1999, 2000}, suffix \in {<<>>, GMT} }

\* signature bytes with the byte at i changed
Alter(q, i) == [q EXCEPT ![i] = (q[i] + 1) % 256]

\* what a verifier is handed after a signature s was produced: the signed data and
\* the signature, either of them with one byte altered, the signature cut short,
\* and no signature at all
Variations(s) ==
    { <<s.data, s.sig>>, <<s.data, SubSeq(s.sig, 1, Len(s.sig) - 1)>>, <<s.data, <<>> >> }
    \cup { <<Alter(s.data, i), s.sig>> : i \in 1..Len(s.data) }
    \cup { <<s.data, Alter(s.sig, i)>> : i \in 1..Len(s.sig) }

\* before anything was signed a verifier can only be handed bytes that are no signature
VerifyInputs ==
    IF signed = {} THEN { <<d, <<>> >> : d \in Data }
    ELSE UNION { Variations(s) : s \in signed }

(***************************************************************************)
(* The state machine.                                                      *)
(***************************************************************************)
Init ==
    /\ x509s = {}
    /\ pkeys = {}
    /\ aeskeys = {}
    /\ call = NoCall
    /\ signed = {}
    /\ fmtout = {}

Called(op, args, result, reads) ==
    [op |-> op, args |-> args, result |-> result, reads |-> reads]

\* a handle can still be constructed
Room == Cardinality(x509s) + Cardinality(pkeys) + Cardinality(aeskeys) < MaxHandles

\* the date strings still to be parsed
InitDate ==
    /\ x509s = {}
    /\ pkeys = {}
    /\ aeskeys = {}
    /\ call \in {Called("pending", <<date>>, None, <<>>) : date \in DateInputs}
    /\ signed = {}
    /\ fmtout = {}

ParseAsn1Date ==
    /\ call.op = "pending"
    /\ call' = Called("parse_asn1_date", call.args, parse_asn1_date(call.args[1]), <<>>)
    /\ UNCHANGED <<x509s, pkeys, aeskeys, signed, fmtout>>

FromByteString ==
    \E data \in ByteStrings :
        LET r == from_byte_string(data)
        IN  /\ Room
            /\ call' = Called("from_byte_string", <<data>>, r, <<>>)
            /\ x509s' = IF IsOk(r) THEN x509s \cup {r[2]} ELSE x509s
            /\ UNCHANGED <<pkeys, aeskeys, signed, fmtout>>

X509Wrap ==
    \E value \in EngineCerts :
        /\ Room
        /\ call' = Called("X509::wrap", <<value>>, Ret(X509_wrap(value)), <<>>)
        /\ x509s' = x509s \cup {X509_wrap(value)}
        /\ UNCHANGED <<pkeys, aeskeys, signed, fmtout>>

IsTimeValid ==
    \E self \in x509s, now \in Nows :
        LET r == is_time_valid(self, now)
        IN  /\ call' = Called("is_time_valid", <<self, now>>, Ret(r.status), r.reads)
            /\ UNCHANGED <<x509s, pkeys, aeskeys, signed, fmtout>>

PKeyNew ==
    \E key_size \in KeySizes, id \in KeyIds :
        LET r == PKey_new(key_size, id)
        IN  /\ Room
            /\ call' = Called("PKey::new", <<key_size>>, r, <<>>)
            /\ pkeys' = IF IsPanic(r) THEN pkeys ELSE pkeys \cup {r[2]}
            /\ UNCHANGED <<x509s, aeskeys, signed, fmtout>>

PKeyWrap ==
    \E pkey \in PublicKeys :
        /\ Room
        /\ call' = Called("PKey::wrap", <<pkey>>, Ret(PKey_wrap(pkey)), <<>>)
        /\ pkeys' = pkeys \cup {PKey_wrap(pkey)}
        /\ UNCHANGED <<x509s, aeskeys, signed, fmtout>>

Signed(self, md, data, r) ==
    IF IsPanic(r) THEN signed
    ELSE {[handle |-> self, md |-> md, data |-> data, sig |-> r[2]]}

SignSha1 ==
    \E self \in pkeys, data \in Data :
        LET r == sign_sha1(self, data)
        IN  /\ call' = Called("sign_sha1", <<self, data>>, r, <<>>)
            /\ signed' = Signed(self, "sha1", data, r)
            /\ UNCHANGED <<x509s, pkeys, aeskeys, fmtout>>

SignSha256 ==
    \E self \in pkeys, data \in Data :
        LET r == sign_sha256(self, data)
        IN  /\ call' = Called("sign_sha256", <<self, data>>, r, <<>>)
            /\ signed' = Signed(self, "sha256", data, r)
            /\ UNCHANGED <<x509s, pkeys, aeskeys, fmtout>>

VerifySha1 ==
    \E self \in pkeys, in \in VerifyInputs :
        /\ call' = Called("verify_sha1", <<self, in[1], in[2]>>,
                          verify_sha1(self, in[1], in[2]), <<>>)
        /\ UNCHANGED <<x509s, pkeys, aeskeys, signed, fmtout>>

VerifySha256 ==
    \E self \in pkeys, in \in VerifyInputs :
        /\ call' = Called("verify_sha256", <<self, in[1], in[2]>>,
                          verify_sha256(self, in[1], in[2]), <<>>)
        /\ UNCHANGED <<x509s, pkeys, aeskeys, signed, fmtout>>

NewEncrypt ==
    \E value \in RawKeys :
        LET r == new_encrypt(value)
        IN  /\ Room
            /\ call' = Called("new_encrypt", <<value>>, r, <<>>)
            /\ aeskeys' = IF IsPanic(r) THEN aeskeys ELSE aeskeys \cup {r[2]}
            /\ UNCHANGED <<x509s, pkeys, signed, fmtout>>

NewDecrypt ==
    \E value \in RawKeys :
        LET r == new_decrypt(value)
        IN  /\ Room
            /\ call' = Called("new_decrypt", <<value>>, r, <<>>)
            /\ aeskeys' = IF IsPanic(r) THEN aeskeys ELSE aeskeys \cup {r[2]}
            /\ UNCHANGED <<x509s, pkeys, signed, fmtout>>

Written(self, text) == [type |-> self.type, handle |-> self, text |-> text]

FmtX509 ==
    \E self \in x509s :
        /\ fmtout' = fmtout \cup {Written(self, X509_fmt(self))}
        /\ call' = Called("X509::fmt", <<self>>, Ret(X509_fmt(self)), <<>>)
        /\ UNCHANGED <<x509s, pkeys, aeskeys, signed>>

FmtPKey ==
    \E self \in pkeys :
        /\ fmtout' = fmtout \cup {Written(self, PKey_fmt(self))}
        /\ call' = Called("PKey::fmt", <<self>>, Ret(PKey_fmt(self)), <<>>)
        /\ UNCHANGED <<x509s, pkeys, aeskeys, signed>>

FmtAesKey ==
    \E self \in aeskeys :
        /\ fmtout' = fmtout \cup {Written(self, AesKey_fmt(self))}
        /\ call' = Called("AesKey::fmt", <<self>>, Ret(AesKey_fmt(self)), <<>>)
        /\ UNCHANGED <<x509s, pkeys, aeskeys, signed>>

\* the date parser alone
NextDate == ParseAsn1Date

SpecDate == InitDate /\ [][NextDate]_vars

\* certificates: construction from bytes and the time check
NextCert == FromByteString \/ IsTimeValid

SpecCert == Init /\ [][NextCert]_vars

\* key pairs: generation, wrapping, signing and verifying
NextKey == PKeyNew \/ PKeyWrap \/ SignSha1 \/ SignSha256 \/ VerifySha1 \/ VerifySha256

SpecKey == Init /\ [][NextKey]_vars

\* the three wrappers: their constructors and Debug formatting
Next ==
    X509Wrap \/ PKeyNew \/ PKeyWrap \/ NewEncrypt \/ NewDecrypt
    \/ FmtX509 \/ FmtPKey \/ FmtAesKey

Spec == Init /\ [][Next]_vars

(***************************************************************************)
(* Properties of the date parser (SpecDate).                               *)
(***************************************************************************)
\* the calendar, as a table
MonthLengths == <<31, 28, 31, 30, 31, 30, 31, 31, 30, 31, 30, 31>>

DayExists(y, m, d) ==
    /\ d >= 1
    /\ d <= MonthLengths[m] + (IF m = 2 /\ y % 4 = 0 /\ (y % 100 # 0 \/ y % 400 = 0) THEN 1 ELSE 0)

Num2(s, i) == DigitVal(s[i]) * 10 + DigitVal(s[i + 1])

\* s is laid out as MMM DD HH:MM:SS YYYY
HasDateLayout(s) ==
    /\ Len(s) = 20
    /\ \E m \in 1..12 : SubSeq(s, 1, 3) = MonthAbbr[m]
    /\ \A i \in {4, 7, 16} : s[i] = " "
    /\ \A i \in {10, 13} : s[i] = ":"
    /\ \A i \in {5, 6, 8, 9, 11, 12, 14, 15, 17, 18, 19, 20} : IsDigit(s[i])

\* the fields as written in a string of that layout
FieldsOf(s) ==
    [year |-> Num2(s, 17) * 100 + Num2(s, 19),
     month |-> CHOOSE m \in 1..12 : SubSeq(s, 1, 3) = MonthAbbr[m],
     day |-> Num2(s, 5), hour |-> Num2(s, 8), minute |-> Num2(s, 11), second |-> Num2(s, 14)]

\* a valid date string: the layout, and fields that name an instant of the calendar
ValidDateString(s) ==
    /\ HasDateLayout(s)
    /\ LET f == FieldsOf(s)
       IN  /\ DayExists(f.year, f.month, f.day)
           /\ f.hour <= 23
           /\ f.minute <= 59
           /\ f.second <= 59

\* the date string of the last call without its " GMT" suffix, if it has one
Unsuffixed(date) ==
    IF Len(date) = 24 /\ SubSeq(date, 21, 24) = GMT THEN SubSeq(date, 1, 20) ELSE date

Parsed == call.op = "parse_asn1_date"

\* C7: for every valid date string s in the form MMM DD HH:MM:SS YYYY, parsing s and
\* parsing s followed by " GMT" both succeed with the same timestamp, whose month,
\* day, hour, minute, second and year are the fields written in s.
C7_GmtSuffixSameTimestamp ==
    Parsed =>
        LET s == Unsuffixed(call.args[1])
        IN  ValidDateString(s) =>
                /\ IsOk(call.result)
                /\ LET ts == call.result[2]
                       f == FieldsOf(s)
                   IN  /\ ts.month = f.month
                       /\ ts.day = f.day
                       /\ ts.hour = f.hour
                       /\ ts.minute = f.minute
                       /\ ts.second = f.second
                       /\ ts.year = f.year
                /\ parse_asn1_date(s) = call.result
                /\ parse_asn1_date(s \o GMT) = call.result

C7_Witness ==
    /\ Parsed
    /\ call.args[1] # Unsuffixed(call.args[1])
    /\ ValidDateString(Unsuffixed(call.args[1]))
    /\ IsOk(call.result)
    /\ call.result[2].day = 29
    /\ call.result[2].month = 2

\* C8: parse_asn1_date returns an error, neither a timestamp nor a panic, for the
\* empty string and for every date string whose day is out of range for its month,
\* with or without the " GMT" suffix.
C8_EmptyOrBadDayIsError ==
    Parsed =>
        LET s == Unsuffixed(call.args[1])
        IN  /\ call.args[1] = <<>> => call.result = Err
            /\ (HasDateLayout(s) /\ ~DayExists(FieldsOf(s).year, FieldsOf(s).month, FieldsOf(s).day))
                   => call.result = Err

C8_Witness ==
    /\ Parsed
    /\ call.args[1] # Unsuffixed(call.args[1])
    /\ HasDateLayout(Unsuffixed(call.args[1]))
    /\ FieldsOf(Unsuffixed(call.args[1])).day = 30
    /\ FieldsOf(Unsuffixed(call.args[1])).month = 2
    /\ call.result = Err

(***************************************************************************)
(* Properties of certificates (SpecCert).                                  *)
(***************************************************************************)
\* instant a is earlier than instant b, field by field
Earlier(a, b) ==
    \/ a.year < b.year
    \/ a.year = b.year /\ a.month < b.month
    \/ a.year = b.year /\ a.month = b.month /\ a.day < b.day
    \/ a.year = b.year /\ a.month = b.month /\ a.day = b.day /\ a.hour < b.hour
    \/ a.year = b.year /\ a.month = b.month /\ a.day = b.day /\ a.hour = b.hour
       /\ a.minute < b.minute
    \/ a.year = b.year /\ a.month = b.month /\ a.day = b.day /\ a.hour = b.hour
       /\ a.minute = b.minute /\ a.second < b.second
    \/ a.year = b.year /\ a.month = b.month /\ a.day = b.day /\ a.hour = b.hour
       /\ a.minute = b.minute /\ a.second = b.second /\ a.leap < b.leap

NotLater(a, b) == a = b \/ Earlier(a, b)

TimeChecked == call.op = "is_time_valid"

\* the bounds of the certificate of the last is_time_valid call, and its instant
CheckedNotBefore == not_before(call.args[1])
CheckedNotAfter == not_after(call.args[1])
CheckedNow == call.args[2]

\* C1: is_time_valid(now) returns Good if and only if both validity bounds are
\* readable and notBefore <= now <= notAfter; now = notBefore and now = notAfter are
\* inside.
C1_GoodIffWithinBounds ==
    TimeChecked =>
        ( call.result = Ret(GOOD)
          <=> /\ IsOk(CheckedNotBefore)
              /\ IsOk(CheckedNotAfter)
              /\ NotLater(CheckedNotBefore[2], CheckedNow)
              /\ NotLater(CheckedNow, CheckedNotAfter[2]) )

C1_Witness ==
    /\ TimeChecked
    /\ IsOk(CheckedNotBefore)
    /\ IsOk(CheckedNotAfter)
    /\ CheckedNow = CheckedNotBefore[2]
    /\ Earlier(CheckedNow, CheckedNotAfter[2])
    /\ call.result = Ret(GOOD)

\* C2, as claimed: is_time_valid(now) returns CertificateInvalid whenever either
\* validity bound is unreadable, whatever now is and whether or not the other bound
\* is readable.
C2_InvalidWheneverEitherUnreadable ==
    (TimeChecked /\ (~IsOk(CheckedNotBefore) \/ ~IsOk(CheckedNotAfter)))
        => call.result = Ret(BAD_CERTIFICATE_INVALID)

\* C2, amended: is_time_valid(now) returns CertificateInvalid whenever not-before is
\* unreadable, and whenever not-before is readable, now is not earlier than it and
\* not-after is unreadable; with not-before readable and now earlier than it, the
\* result is TimeInvalid even when not-after is unreadable.
C2_InvalidWhenUnreadableBoundIsReached ==
    TimeChecked =>
        /\ ~IsOk(CheckedNotBefore) => call.result = Ret(BAD_CERTIFICATE_INVALID)
        /\ (IsOk(CheckedNotBefore) /\ ~IsOk(CheckedNotAfter))
               => call.result = IF Earlier(CheckedNow, CheckedNotBefore[2])
                                THEN Ret(BAD_CERTIFICATE_TIME_INVALID)
                                ELSE Ret(BAD_CERTIFICATE_INVALID)

C2_Witness ==
    /\ TimeChecked
    /\ IsOk(CheckedNotBefore)
    /\ ~IsOk(CheckedNotAfter)
    /\ ~Earlier(CheckedNow, CheckedNotBefore[2])
    /\ call.result = Ret(BAD_CERTIFICATE_INVALID)

\* C10: is_time_valid stops at the first decisive step: with not-before unreadable
\* it returns CertificateInvalid without reading not-after; with not-before readable
\* and now < notBefore it returns TimeInvalid without reading not-after; not-after
\* is read only when notBefore <= now.
C10_StopsAtFirstDecisiveStep ==
    TimeChecked =>
        /\ call.reads[1] = "not_before"
        /\ ~IsOk(CheckedNotBefore)
               => call.result = Ret(BAD_CERTIFICATE_INVALID) /\ call.reads = <<"not_before">>
        /\ (IsOk(CheckedNotBefore) /\ Earlier(CheckedNow, CheckedNotBefore[2]))
               => call.result = Ret(BAD_CERTIFICATE_TIME_INVALID)
                  /\ call.reads = <<"not_before">>
        /\ (\E i \in 1..Len(call.reads) : call.reads[i] = "not_after")
               => IsOk(CheckedNotBefore) /\ NotLater(CheckedNotBefore[2], CheckedNow)

C10_Witness ==
    /\ TimeChecked
    /\ IsOk(CheckedNotBefore)
    /\ Earlier(CheckedNow, CheckedNotBefore[2])
    /\ ~IsOk(CheckedNotAfter)
    /\ call.reads = <<"not_before">>
    /\ call.result = Ret(BAD_CERTIFICATE_TIME_INVALID)

FromBytes == call.op = "from_byte_string"

\* C4: from_byte_string returns an error and no handle when the buffer is null or
\* empty or does not decode as a DER certificate; it returns a handle only when the
\* engine's DER decode succeeded, so no handle obtained from bytes wraps an unparsed
\* certificate.
C4_HandleOnlyFromDecodedBytes ==
    /\ FromBytes =>
           LET data == call.args[1]
           IN  /\ data[1] = "None" => call.result = Err
               /\ (data[1] = "Some" /\ (data[2] = <<>> \/ ~IsOk(from_der(data[2]))))
                      => call.result = Err
               /\ call.result = Err \/ IsOk(call.result)
               /\ IsOk(call.result)
                      => /\ data[1] = "Some"
                         /\ from_der(data[2]) = Ok(call.result[2].value)
                         /\ call.result[2] \in x509s
    /\ \A h \in x509s : \E bytes \in DerInputs : from_der(bytes) = Ok(h.value)

C4_Witness ==
    /\ FromBytes
    /\ call.args[1] = Some(<<>>)
    /\ call.result = Err
    /\ x509s # {}

(***************************************************************************)
(* Properties of key pairs (SpecKey).                                      *)
(***************************************************************************)
Verified == call.op \in {"verify_sha1", "verify_sha256"}

VerifiedMd == IF call.op = "verify_sha1" THEN "sha1" ELSE "sha256"

\* C3: verify_sha1 and verify_sha256 never raise or abort: whatever the key handle,
\* the data and the signature, and whatever fails in the engine, the call returns a
\* boolean.
C3_VerifyAlwaysReturnsBoolean ==
    Verified => call.result \in {Ret(TRUE), Ret(FALSE)}

\* b is a with some byte altered
Altered(a, b) == Len(a) = Len(b) /\ a # b

\* C5: for a generated key pair with private material and non-empty data,
\* verify_sha1(data, sign_sha1(data)) is true, and verify_sha1 is false when a byte
\* of the data or of the signature is altered; likewise for sign_sha256 and
\* verify_sha256.
C5_VerifyAcceptsExactlyWhatWasSigned ==
    \A s \in signed :
        (Verified /\ call.args[1] = s.handle /\ VerifiedMd = s.md
         /\ s.handle.value.kind = "rsa" /\ s.handle.value.private /\ s.data # <<>>)
            => LET data == call.args[2]
                   signature == call.args[3]
               IN  /\ (data = s.data /\ signature = s.sig) => call.result = Ret(TRUE)
                   /\ (Altered(s.data, data) /\ signature = s.sig) => call.result = Ret(FALSE)
                   /\ (data = s.data /\ Altered(s.sig, signature)) => call.result = Ret(FALSE)

C5_Witness ==
    \E s \in signed :
        /\ call.op = "verify_sha1"
        /\ call.args[1] = s.handle
        /\ s.md = "sha1"
        /\ call.args[2] = s.data
        /\ call.args[3] = s.sig
        /\ call.result = Ret(TRUE)

(***************************************************************************)
(* Properties of the wrappers (Spec).                                      *)
(***************************************************************************)
\* C6: a handle made by new_encrypt and a handle made by new_decrypt from the same
\* raw key bytes are of distinct types, so that one is not accepted where the other
\* is expected.
C6_EncryptAndDecryptHandlesDifferInType ==
    \A e \in aeskeys, d \in aeskeys :
        (e.value.schedule = "encrypt" /\ d.value.schedule = "decrypt"
         /\ e.value.key = d.value.key)
            => e.type # d.type

\* C9: Debug formatting writes, for each handle type, one text, the same for any two
\* handles of the type whatever they wrap.
C9_DebugTextFixedPerType ==
    \A a \in fmtout, b \in fmtout : a.type = b.type => a.text = b.text

C9_Witness ==
    \E a \in fmtout, b \in fmtout :
        a.type = b.type /\ a.handle.value # b.handle.value /\ a.text = b.text

====
